---- MODULE Spec2Model ----
(***************************************************************************)
(* Model of the Lingerie Shop API (src/main.py, src/schemas.py).           *)
(*                                                                         *)
(* Python values are tagged records of one shape, so that values of        *)
(* different Python types can be compared:                                 *)
(*    t = "null" | "bool" | "num" | "str" | "list" | "oid"                 *)
(* Decimal numbers (float) are fixed point, in tenths: 69.0 is 690, 4.7 is *)
(* 47, -1 is -10.  A bool keeps n = 0 or 1, as Python's bool is an int.    *)
(* A document (a stored record, a request body) is a function from all the *)
(* field names to values; a key the document lacks holds Absent.  A filter *)
(* mapping is the same over the keys list_products can set.                *)
(*                                                                         *)
(* The module database (create_document, get_documents) is not part of the *)
(* sources; the store is modelled from the specification's description of  *)
(* the Store Accessor.                                                     *)
(***************************************************************************)
EXTENDS Integers, Sequences, FiniteSets, TLC

\* ------------------------------------------------------------------ bounds
\* Number of requests the HTTP surface dispatches in one behaviour.
NumReqs == 2

Reqs == 1..NumReqs

\* ---------------------------------------------------------- Python values
Null == [t |-> "null", n |-> 0, s |-> "", l |-> <<>>]
Num(k) == [t |-> "num", n |-> k, s |-> "", l |-> <<>>]
Str(x) == [t |-> "str", n |-> 0, s |-> x, l |-> <<>>]
Bool(b) == [t |-> "bool", n |-> IF b THEN 1 ELSE 0, s |-> "", l |-> <<>>]
List(q) == [t |-> "list", n |-> 0, s |-> "", l |-> q]
Oid(k) == [t |-> "oid", n |-> k, s |-> "", l |-> <<>>]

\* What a key that the document lacks holds.
Absent == [t |-> "absent", n |-> 0, s |-> "", l |-> <<>>]

Keys == {"_id", "title", "description", "price", "category", "images", "colors",
         "sizes", "tags", "in_stock", "is_featured", "rating"}

\* The document with the keys and values of f, and no other key.
Doc(f) == [k \in Keys |-> IF k \in DOMAIN f THEN f[k] ELSE Absent]

\* key in d
Has(d, k) == d[k] # Absent

\* dict.get(key, default)
Get(d, k, default) == IF Has(d, k) THEN d[k] ELSE default

\* The digits of a natural number.
RECURSIVE Digits(_)
Digits(k) == IF k < 10 THEN ToString(k) ELSE Digits(k \div 10) \o ToString(k % 10)

\* repr of a float held in tenths: 690 is "69.0", -10 is "-1.0".
FloatText(k) ==
    IF k < 0 THEN "-" \o Digits((0 - k) \div 10) \o "." \o Digits((0 - k) % 10)
    ELSE Digits(k \div 10) \o "." \o Digits(k % 10)

\* str(x)
PyStr(v) ==
    CASE v.t = "str" -> v.s
      [] v.t = "null" -> "None"
      [] v.t = "bool" -> IF v.n = 1 THEN "True" ELSE "False"
      [] v.t = "num" -> FloatText(v.n)
      [] v.t = "oid" -> "oid" \o Digits(v.n)
      [] OTHER -> "[...]"

\* bool(x)
PyBool(v) ==
    CASE v.t = "bool" -> v.n = 1
      [] v.t = "num" -> v.n # 0
      [] v.t = "str" -> v.s # ""
      [] v.t = "list" -> v.l # <<>>
      [] v.t = "null" -> FALSE
      [] OTHER -> TRUE

\* The text a float can be parsed from, for the strings the model uses.
NumericText == {"0", "12", "12.5"}

ParseFloat(s) ==
    CASE s = "0" -> 0
      [] s = "12" -> 120
      [] s = "12.5" -> 125
      [] OTHER -> 0

\* float(x): ok is FALSE where Python raises ValueError or TypeError.
PyFloat(v) ==
    CASE v.t = "num" -> [ok |-> TRUE, n |-> v.n]
      [] v.t = "bool" -> [ok |-> TRUE, n |-> v.n * 10]
      [] v.t = "str" /\ v.s \in NumericText -> [ok |-> TRUE, n |-> ParseFloat(v.s)]
      [] OTHER -> [ok |-> FALSE, n |-> 0]

\* [str(x) for x in v]: ok is FALSE where v is not iterable (TypeError).
RECURSIVE StrAll(_)
StrAll(q) == IF q = <<>> THEN <<>> ELSE <<PyStr(Head(q))>> \o StrAll(Tail(q))

StrEach(v) ==
    IF v.t = "list"
    THEN [ok |-> TRUE, q |-> StrAll(v.l)]
    ELSE [ok |-> FALSE, q |-> <<>>]

\* ------------------------------------------------------------- ProductOut
\* What a normalization that raised leaves: no product.
Raised == [ok |-> FALSE]

\* Optional[float] accepts None, a number, or numeric text.
OptFloatOk(v) ==
    \/ v.t \in {"null", "num", "bool"}
    \/ v.t = "str" /\ v.s \in NumericText

OptFloat(v) ==
    CASE v.t = "null" -> Null
      [] v.t = "num" -> v
      [] v.t = "bool" -> Num(v.n * 10)
      [] OTHER -> Num(ParseFloat(v.s))

\* Construction of a ProductOut from keyword arguments: title and category
\* are required text, description is text or None, rating Optional[float].
ProductOut(a) ==
    IF /\ a.title.t = "str"
       /\ a.category.t = "str"
       /\ a.description.t \in {"str", "null"}
       /\ OptFloatOk(a.rating)
    THEN [ok |-> TRUE,
          v |-> [id |-> a.id, title |-> a.title.s, description |-> a.description,
                 price |-> a.price, category |-> a.category.s,
                 images |-> a.images, colors |-> a.colors, sizes |-> a.sizes,
                 tags |-> a.tags, in_stock |-> a.in_stock,
                 is_featured |-> a.is_featured, rating |-> OptFloat(a.rating)]]
    ELSE Raised

\* The conversion of one stored document in list_products.
NormalizeList(d) ==
    LET price == PyFloat(Get(d, "price", Num(0)))
        images == StrEach(Get(d, "images", List(<<>>)))
        colors == StrEach(Get(d, "colors", List(<<>>)))
        sizes == StrEach(Get(d, "sizes", List(<<>>)))
        tags == StrEach(Get(d, "tags", List(<<>>)))
    IN  IF price.ok /\ images.ok /\ colors.ok /\ sizes.ok /\ tags.ok
        THEN ProductOut([id |-> PyStr(Get(d, "_id", Null)),
                         title |-> Get(d, "title", Null),
                         description |-> Get(d, "description", Null),
                         price |-> price.n,
                         category |-> Get(d, "category", Null),
                         images |-> images.q, colors |-> colors.q,
                         sizes |-> sizes.q, tags |-> tags.q,
                         in_stock |-> PyBool(Get(d, "in_stock", Bool(TRUE))),
                         is_featured |-> PyBool(Get(d, "is_featured", Bool(FALSE))),
                         rating |-> IF Get(d, "rating", Null) # Null
                                    THEN Get(d, "rating", Null) ELSE Null])
        ELSE Raised

\* The conversion in seed_sample_products, collection not empty.
NormalizeExisting(d) ==
    LET price == PyFloat(Get(d, "price", Num(0)))
        images == StrEach(Get(d, "images", List(<<>>)))
        colors == StrEach(Get(d, "colors", List(<<>>)))
        sizes == StrEach(Get(d, "sizes", List(<<>>)))
        tags == StrEach(Get(d, "tags", List(<<>>)))
    IN  IF price.ok /\ images.ok /\ colors.ok /\ sizes.ok /\ tags.ok
        THEN ProductOut([id |-> PyStr(Get(d, "_id", Null)),
                         title |-> Get(d, "title", Null),
                         description |-> Get(d, "description", Null),
                         price |-> price.n,
                         category |-> Get(d, "category", Null),
                         images |-> images.q, colors |-> colors.q,
                         sizes |-> sizes.q, tags |-> tags.q,
                         in_stock |-> PyBool(Get(d, "in_stock", Bool(TRUE))),
                         is_featured |-> PyBool(Get(d, "is_featured", Bool(FALSE))),
                         rating |-> IF Get(d, "rating", Null) # Null
                                    THEN Get(d, "rating", Null) ELSE Null])
        ELSE Raised

\* NormalizeSeeded with a rating of 0 for a document that has none.
NormalizeSeededZeroRating(d) ==
    LET price == PyFloat(Get(d, "price", Num(0)))
        images == StrEach(Get(d, "images", List(<<>>)))
        colors == StrEach(Get(d, "colors", List(<<>>)))
        sizes == StrEach(Get(d, "sizes", List(<<>>)))
        tags == StrEach(Get(d, "tags", List(<<>>)))
    IN  IF price.ok /\ images.ok /\ colors.ok /\ sizes.ok /\ tags.ok
        THEN ProductOut([id |-> PyStr(Get(d, "_id", Null)),
                         title |-> Get(d, "title", Null),
                         description |-> Get(d, "description", Null),
                         price |-> price.n,
                         category |-> Get(d, "category", Null),
                         images |-> images.q, colors |-> colors.q,
                         sizes |-> sizes.q, tags |-> tags.q,
                         in_stock |-> PyBool(Get(d, "in_stock", Bool(TRUE))),
                         is_featured |-> PyBool(Get(d, "is_featured", Bool(FALSE))),
                         rating |-> IF Get(d, "rating", Null) # Null
                                    THEN Get(d, "rating", Null) ELSE Num(0)])
        ELSE Raised

\* The conversion in seed_sample_products, after the demo set was inserted.
NormalizeSeeded(d) ==
    LET price == PyFloat(Get(d, "price", Num(0)))
        images == StrEach(Get(d, "images", List(<<>>)))
        colors == StrEach(Get(d, "colors", List(<<>>)))
        sizes == StrEach(Get(d, "sizes", List(<<>>)))
        tags == StrEach(Get(d, "tags", List(<<>>)))
    IN  IF price.ok /\ images.ok /\ colors.ok /\ sizes.ok /\ tags.ok
        THEN ProductOut([id |-> PyStr(Get(d, "_id", Null)),
                         title |-> Get(d, "title", Null),
                         description |-> Get(d, "description", Null),
                         price |-> price.n,
                         category |-> Get(d, "category", Null),
                         images |-> images.q, colors |-> colors.q,
                         sizes |-> sizes.q, tags |-> tags.q,
                         in_stock |-> PyBool(Get(d, "in_stock", Bool(TRUE))),
                         is_featured |-> PyBool(Get(d, "is_featured", Bool(FALSE))),
                         rating |-> IF Get(d, "rating", Null) # Null
                                    THEN Get(d, "rating", Null) ELSE Null])
        ELSE Raised

\* The normalization of a sequence of documents: the products, in order, or
\* ok = FALSE if one conversion raised.  which selects the handler's copy.
NormalizeBy(which, d) ==
    CASE which = "list" -> NormalizeList(d)
      [] which = "existing" -> NormalizeExisting(d)
      [] OTHER -> NormalizeSeeded(d)

RECURSIVE NormalizeAll(_, _)
NormalizeAll(which, docs) ==
    IF docs = <<>> THEN [ok |-> TRUE, q |-> <<>>]
    ELSE LET first == NormalizeBy(which, Head(docs))
             rest == NormalizeAll(which, Tail(docs))
         IN  IF first.ok /\ rest.ok
             THEN [ok |-> TRUE, q |-> <<first.v>> \o rest.q]
             ELSE [ok |-> FALSE, q |-> <<>>]

\* -------------------------------------------------------- LingerieProduct
\* Text pydantic's HttpUrl accepts, among the strings the model uses.
WellFormedUrls ==
    {"https://images.unsplash.com/photo-1541099649105-f69ad21f3246?q=80&w=1200&auto=format&fit=crop",
     "https://images.unsplash.com/photo-1515378791036-0648a3ef77b2?q=80&w=1200&auto=format&fit=crop",
     "https://images.unsplash.com/photo-1516641392179-434d6d130a7b?q=80&w=1200&auto=format&fit=crop"}

\* A List[str] field: a list whose elements are all text.
StrListOk(v) == v.t = "list" /\ \A j \in 1..Len(v.l) : v.l[j].t = "str"

\* LingerieProductOk without the bound ge=0 on price.
LingerieProductAnyPrice(b) ==
    /\ Has(b, "title") /\ b["title"].t = "str"
    /\ Get(b, "description", Null).t \in {"str", "null"}
    /\ Has(b, "price") /\ PyFloat(b["price"]).ok
    /\ Has(b, "category") /\ b["category"].t = "str"
    /\ StrListOk(Get(b, "images", List(<<>>)))
    /\ \A j \in 1..Len(Get(b, "images", List(<<>>)).l) :
           Get(b, "images", List(<<>>)).l[j].s \in WellFormedUrls
    /\ StrListOk(Get(b, "colors", List(<<>>)))
    /\ StrListOk(Get(b, "sizes", List(<<>>)))
    /\ StrListOk(Get(b, "tags", List(<<>>)))
    /\ Get(b, "in_stock", Bool(TRUE)).t = "bool"
    /\ Get(b, "is_featured", Bool(FALSE)).t = "bool"
    /\ OptFloatOk(Get(b, "rating", Null))
    /\ Get(b, "rating", Null) # Null =>
           /\ PyFloat(Get(b, "rating", Null)).n >= 0
           /\ PyFloat(Get(b, "rating", Null)).n <= 50

\* Validation of a request body against LingerieProduct.
LingerieProductOk(b) ==
    /\ Has(b, "title") /\ b["title"].t = "str"
    /\ Get(b, "description", Null).t \in {"str", "null"}
    /\ Has(b, "price") /\ PyFloat(b["price"]).ok /\ PyFloat(b["price"]).n >= 0
    /\ Has(b, "category") /\ b["category"].t = "str"
    /\ StrListOk(Get(b, "images", List(<<>>)))
    /\ \A j \in 1..Len(Get(b, "images", List(<<>>)).l) :
           Get(b, "images", List(<<>>)).l[j].s \in WellFormedUrls
    /\ StrListOk(Get(b, "colors", List(<<>>)))
    /\ StrListOk(Get(b, "sizes", List(<<>>)))
    /\ StrListOk(Get(b, "tags", List(<<>>)))
    /\ Get(b, "in_stock", Bool(TRUE)).t = "bool"
    /\ Get(b, "is_featured", Bool(FALSE)).t = "bool"
    /\ OptFloatOk(Get(b, "rating", Null))
    /\ Get(b, "rating", Null) # Null =>
           /\ PyFloat(Get(b, "rating", Null)).n >= 0
           /\ PyFloat(Get(b, "rating", Null)).n <= 50

\* The validated product: every field, defaults filled in.
LingerieProduct(b) ==
    Doc([title |-> b["title"],
     description |-> Get(b, "description", Null),
     price |-> Num(PyFloat(b["price"]).n),
     category |-> b["category"],
     images |-> Get(b, "images", List(<<>>)),
     colors |-> Get(b, "colors", List(<<>>)),
     sizes |-> Get(b, "sizes", List(<<>>)),
     tags |-> Get(b, "tags", List(<<>>)),
     in_stock |-> Get(b, "in_stock", Bool(TRUE)),
     is_featured |-> Get(b, "is_featured", Bool(FALSE)),
     rating |-> OptFloat(Get(b, "rating", Null))])

\* ------------------------------------------------------------------ store
\* insert(collection, record): the record is stored under a generated id,
\* after the records already there.
Insert(c, doc, id) == Append(c, [doc EXCEPT !["_id"] = Oid(id)])

\* A stored document satisfies a filter mapping: equality on each key.
Matches(d, filter) ==
    \A k \in DOMAIN filter : Has(filter, k) => Has(d, k) /\ d[k] = filter[k]

Take(q, k) == IF Len(q) <= k THEN q ELSE SubSeq(q, 1, k)

\* find(collection, filter, limit?): limit 0 stands for no limit.
Find(c, filter, limit) ==
    LET hit == SelectSeq(c, LAMBDA d : Matches(d, filter))
    IN  IF limit = 0 THEN hit ELSE Take(hit, limit)

\* The identifiers of a sequence of stored documents, as numbers.
Ids(docs) == [j \in 1..Len(docs) |-> docs[j]["_id"].n]

\* The filter that matches all records.
NoFilter == [category |-> Absent, is_featured |-> Absent]

\* ------------------------------------------------------- handlers' values
\* BuildFilter testing featured for truth instead of for None.
BuildFilterTruthy(category, featured) ==
    [category |-> IF PyBool(category) THEN category ELSE Absent,
     is_featured |-> IF PyBool(featured) THEN featured ELSE Absent]

\* list_products' filter_dict, from the parsed query parameters (None is
\* Null).
BuildFilter(category, featured) ==
    [category |-> IF PyBool(category) THEN category ELSE Absent,
     is_featured |-> IF featured # Null THEN featured ELSE Absent]

\* limit of the existence query and of the queries that build the response.
ExistsLimit == 1
SeedLimit == 12

\* seed_sample_products' demo list.
Demo ==
    << Doc([title |-> Str("Silk Embrace Bra"),
        description |-> Str("Luxurious silk with delicate lace trim."),
        price |-> Num(690),
        category |-> Str("bras"),
        images |-> List(<<Str("https://images.unsplash.com/photo-1541099649105-f69ad21f3246?q=80&w=1200&auto=format&fit=crop")>>),
        colors |-> List(<<Str("black"), Str("blush"), Str("ivory")>>),
        sizes |-> List(<<Str("32B"), Str("34C"), Str("36D")>>),
        tags |-> List(<<Str("silk"), Str("lace"), Str("underwire")>>),
        is_featured |-> Bool(TRUE),
        rating |-> Num(47)]),
       Doc([title |-> Str("Velvet Night Set"),
        description |-> Str("Two-piece velvet lounge set."),
        price |-> Num(890),
        category |-> Str("sets"),
        images |-> List(<<Str("https://images.unsplash.com/photo-1515378791036-0648a3ef77b2?q=80&w=1200&auto=format&fit=crop")>>),
        colors |-> List(<<Str("wine"), Str("emerald")>>),
        sizes |-> List(<<Str("S"), Str("M"), Str("L")>>),
        tags |-> List(<<Str("set"), Str("velvet"), Str("lounge")>>),
        is_featured |-> Bool(TRUE),
        rating |-> Num(45)]),
       Doc([title |-> Str("Everyday Comfort Brief"),
        description |-> Str("Breathable cotton mid-rise brief."),
        price |-> Num(180),
        category |-> Str("panties"),
        images |-> List(<<Str("https://images.unsplash.com/photo-1516641392179-434d6d130a7b?q=80&w=1200&auto=format&fit=crop")>>),
        colors |-> List(<<Str("nude"), Str("black"), Str("white")>>),
        sizes |-> List(<<Str("S"), Str("M"), Str("L"), Str("XL")>>),
        tags |-> List(<<Str("cotton"), Str("comfort")>>),
        rating |-> Num(42)]) >>

\* ----------------------------------------------------------------- inputs
\* Request bodies of POST /api/products that pass validation ...
ValidBodies ==
    { Doc([title |-> Str("Lace Bralette"), price |-> Num(350), category |-> Str("bras"),
       is_featured |-> Bool(TRUE), rating |-> Num(50)]),
      Doc([title |-> Str("Cotton Brief"), price |-> Num(0), category |-> Str("panties")]) }

\* ... and that fail it.
InvalidBodies ==
    { Doc([title |-> Str("Lace Bralette"), price |-> Num(-10), category |-> Str("bras")]),
      Doc([title |-> Str("Lace Bralette"), price |-> Num(350), category |-> Str("bras"),
       rating |-> Num(51)]),
      Doc([title |-> Str("Lace Bralette"), price |-> Num(350), category |-> Str("bras"),
       rating |-> Num(-1)]),
      Doc([price |-> Num(350), category |-> Str("bras")]),
      Doc([title |-> Str("Lace Bralette"), category |-> Str("bras")]),
      Doc([title |-> Str("Lace Bralette"), price |-> Num(350)]),
      Doc([title |-> Str("Lace Bralette"), price |-> Num(350), category |-> Str("bras"),
       images |-> List(<<Str("not a url")>>)]) }

Bodies == ValidBodies \cup InvalidBodies

NoBody == Doc(<<>>)

\* Query parameters of GET /api/products: None, empty text, a value.
Categories == {Null, Str(""), Str("bras")}
Featureds == {Null, Bool(TRUE), Bool(FALSE)}

\* A collection that earlier requests left behind: k created products.
RECURSIVE Earlier(_)
Earlier(k) ==
    IF k = 0 THEN <<>>
    ELSE Insert(Earlier(k - 1),
                LingerieProduct(IF k % 2 = 1
                                THEN Doc([title |-> Str("Lace Bralette"), price |-> Num(350),
                                      category |-> Str("bras"), is_featured |-> Bool(TRUE)])
                                ELSE Doc([title |-> Str("Cotton Brief"), price |-> Num(0),
                                      category |-> Str("panties")])),
                k)

\* ------------------------------------------------------------------ state
VARIABLES
    coll,      \* the collection "lingerieproduct": documents in store order
    nextId,    \* the next identifier the store generates
    kind,      \* per request: "none", "create", "list", "seed"
    pc,        \* per request: where its handler stands
    arg,       \* per request: body, category, featured
    branch,    \* per seed request: "none", "existing", "seeded"
    i,         \* per seed request: index of the next demo record
    resp,      \* per request: the response
    calls,     \* history: store calls the request has made
    failedAt,  \* history: calls made when a store call failed, 0 if none did
    ins,       \* history: identifiers the request inserted, in order
    before,    \* history: the identifiers stored when the request arrived
    seen,      \* history: the identifiers its last query returned
    after,     \* history: the identifiers stored when the request completed
    alone,     \* history: no other request took a step while it ran
    raw,       \* a raw document handed to the normalizer
    normBy,    \* which handler's conversion was applied to raw
    normOut    \* its result

vars == <<coll, nextId, kind, pc, arg, branch, i, resp, calls, failedAt, ins,
          before, seen, after, alone, raw, normBy, normOut>>

normVars == <<raw, normBy, normOut>>

NoResp == [status |-> 0, body |-> <<>>, id |-> ""]
NoArg == [body |-> NoBody, category |-> Null, featured |-> Null]

Running(r) == pc[r] \notin {"idle", "done"}

InitRequests ==
    /\ nextId = Len(coll) + 1
    /\ kind = [r \in Reqs |-> "none"]
    /\ pc = [r \in Reqs |-> "idle"]
    /\ arg = [r \in Reqs |-> NoArg]
    /\ branch = [r \in Reqs |-> "none"]
    /\ i = [r \in Reqs |-> 0]
    /\ resp = [r \in Reqs |-> NoResp]
    /\ calls = [r \in Reqs |-> 0]
    /\ failedAt = [r \in Reqs |-> 0]
    /\ ins = [r \in Reqs |-> <<>>]
    /\ before = [r \in Reqs |-> <<>>]
    /\ seen = [r \in Reqs |-> <<>>]
    /\ after = [r \in Reqs |-> <<>>]
    /\ alone = [r \in Reqs |-> TRUE]

\* The service starts on an empty collection, or on one that holds more
\* products than a seed response may carry.
Init ==
    /\ coll \in {<<>>, Earlier(SeedLimit + 1)}
    /\ InitRequests
    /\ raw = NoBody
    /\ normBy = "none"
    /\ normOut = Raised

\* A step of request r: every other request in progress has been interleaved.
Interleave(r) ==
    alone' = [q \in Reqs |-> IF q # r /\ Running(q) THEN FALSE ELSE alone[q]]

\* Request r arrives and its handler starts; requests are numbered in the
\* order in which they arrive.
Arrive(r, k, a) ==
    /\ pc[r] = "idle"
    /\ \A q \in Reqs : q < r => pc[q] # "idle"
    /\ kind' = [kind EXCEPT ![r] = k]
    /\ arg' = [arg EXCEPT ![r] = a]
    /\ before' = [before EXCEPT ![r] = Ids(coll)]
    /\ UNCHANGED normVars

\* ServerError answering with an empty list instead of the error.
ServerErrorSwallowed(r) ==
    /\ resp' = [resp EXCEPT ![r] = [status |-> 200, body |-> <<>>, id |-> ""]]
    /\ pc' = [pc EXCEPT ![r] = "done"]
    /\ after' = [after EXCEPT ![r] = Ids(coll)]

\* The handlers' except clause: HTTPException(status_code=500).
ServerError(r) ==
    /\ resp' = [resp EXCEPT ![r] = [status |-> 500, body |-> <<>>, id |-> ""]]
    /\ pc' = [pc EXCEPT ![r] = "done"]
    /\ after' = [after EXCEPT ![r] = Ids(coll)]

\* A store call of request r raises.
StoreFails(r) ==
    /\ calls' = [calls EXCEPT ![r] = @ + 1]
    /\ failedAt' = [failedAt EXCEPT ![r] = calls[r] + 1]
    /\ ServerError(r)
    /\ Interleave(r)
    /\ UNCHANGED <<coll, nextId, branch, i, ins, seen>>

\* create_document succeeds for request r.
Inserted(r, doc) ==
    /\ coll' = Insert(coll, doc, nextId)
    /\ nextId' = nextId + 1
    /\ ins' = [ins EXCEPT ![r] = Append(@, nextId)]
    /\ calls' = [calls EXCEPT ![r] = @ + 1]

\* get_documents succeeds for request r and returns docs.
Queried(r, docs) ==
    /\ seen' = [seen EXCEPT ![r] = Ids(docs)]
    /\ calls' = [calls EXCEPT ![r] = @ + 1]

\* The response built from the documents of a query, or the server error
\* if a conversion raised.
Respond(r, which, docs) ==
    LET out == NormalizeAll(which, docs)
    IN  /\ pc' = [pc EXCEPT ![r] = "done"]
        /\ after' = [after EXCEPT ![r] = Ids(coll)]
        /\ resp' = [resp EXCEPT ![r] =
                       IF out.ok
                       THEN [status |-> 200, body |-> out.q, id |-> ""]
                       ELSE [status |-> 500, body |-> <<>>, id |-> ""]]

\* ----------------------------------------------------- POST /api/products
\* A body that fails validation is answered 422 and create_product does
\* not run.
Rejected(r) ==
    /\ resp' = [resp EXCEPT ![r] = [status |-> 422, body |-> <<>>, id |-> ""]]
    /\ pc' = [pc EXCEPT ![r] = "done"]
    /\ after' = [after EXCEPT ![r] = Ids(coll)]
    /\ Interleave(r)
    /\ UNCHANGED <<coll, nextId, branch, i, calls, failedAt, ins, seen>>

\* inserted_id = create_document(collection, product); return {"id": ...}
create_product(r) ==
    \E b \in Bodies :
        /\ Arrive(r, "create", [NoArg EXCEPT !.body = b])
        /\ IF LingerieProductOk(b)
           THEN \/ /\ Inserted(r, LingerieProduct(b))
                   /\ resp' = [resp EXCEPT ![r] =
                                  [status |-> 200, body |-> <<>>, id |-> PyStr(Oid(nextId))]]
                   /\ pc' = [pc EXCEPT ![r] = "done"]
                   /\ after' = [after EXCEPT ![r] = Ids(coll')]
                   /\ Interleave(r)
                   /\ UNCHANGED <<branch, i, failedAt, seen>>
                \/ StoreFails(r)
           ELSE Rejected(r)

\* ------------------------------------------------------ GET /api/products
list_products(r) ==
    \E c \in Categories, f \in Featureds :
        /\ Arrive(r, "list", [NoArg EXCEPT !.category = c, !.featured = f])
        /\ \/ LET docs == Find(coll, BuildFilter(c, f), 0)
              IN  /\ Queried(r, docs)
                  /\ Respond(r, "list", docs)
                  /\ Interleave(r)
                  /\ UNCHANGED <<coll, nextId, branch, i, failedAt, ins>>
           \/ StoreFails(r)

\* ----------------------------------------------- GET /api/products/sample
\* seed_check that seeds whether or not a record exists.
seed_check_always(r) ==
    /\ Arrive(r, "seed", NoArg)
    /\ \/ LET existing == Find(coll, NoFilter, ExistsLimit)
          IN  /\ Queried(r, existing)
              /\ branch' = [branch EXCEPT ![r] = "seeded"]
              /\ pc' = [pc EXCEPT ![r] = "insert_demo"]
              /\ i' = [i EXCEPT ![r] = 1]
              /\ Interleave(r)
              /\ UNCHANGED <<coll, nextId, resp, failedAt, ins, after>>
       \/ StoreFails(r)

\* seed_check that empties a collection that is not empty, to seed it anew.
seed_check_reset(r) ==
    /\ Arrive(r, "seed", NoArg)
    /\ \/ LET existing == Find(coll, NoFilter, ExistsLimit)
          IN  /\ Queried(r, existing)
              /\ coll' = <<>>
              /\ branch' = [branch EXCEPT ![r] = "seeded"]
              /\ pc' = [pc EXCEPT ![r] = "insert_demo"]
              /\ i' = [i EXCEPT ![r] = 1]
              /\ Interleave(r)
              /\ UNCHANGED <<nextId, resp, failedAt, ins, after>>
       \/ StoreFails(r)

\* existing = get_documents(collection, {}, limit=1); if existing: ...
seed_check(r) ==
    /\ Arrive(r, "seed", NoArg)
    /\ \/ LET existing == Find(coll, NoFilter, ExistsLimit)
          IN  /\ Queried(r, existing)
              /\ branch' = [branch EXCEPT ![r] =
                               IF existing # <<>> THEN "existing" ELSE "seeded"]
              /\ pc' = [pc EXCEPT ![r] =
                           IF existing # <<>> THEN "requery" ELSE "insert_demo"]
              /\ i' = [i EXCEPT ![r] = IF existing # <<>> THEN 0 ELSE 1]
              /\ Interleave(r)
              /\ UNCHANGED <<coll, nextId, resp, failedAt, ins, after>>
       \/ StoreFails(r)

\* seed_insert leaving the loop before the last demo record.
seed_insert_short(r) ==
    /\ pc[r] = "insert_demo"
    /\ \/ /\ Inserted(r, Demo[i[r]])
          /\ i' = [i EXCEPT ![r] = @ + 1]
          /\ pc' = [pc EXCEPT ![r] =
                       IF i[r] >= Len(Demo) - 1 THEN "requery" ELSE "insert_demo"]
          /\ Interleave(r)
          /\ UNCHANGED <<branch, resp, failedAt, seen, after>>
       \/ StoreFails(r)
    /\ UNCHANGED <<kind, arg, before, normVars>>

\* seed_insert skipping a demo record whose title is already stored.
seed_insert_once(r) ==
    /\ pc[r] = "insert_demo"
    /\ \/ /\ IF \E m \in 1..Len(coll) : coll[m]["title"] = Demo[i[r]]["title"]
             THEN UNCHANGED <<coll, nextId, ins, calls>>
             ELSE Inserted(r, Demo[i[r]])
          /\ i' = [i EXCEPT ![r] = @ + 1]
          /\ pc' = [pc EXCEPT ![r] = IF i[r] = Len(Demo) THEN "requery" ELSE "insert_demo"]
          /\ Interleave(r)
          /\ UNCHANGED <<branch, resp, failedAt, seen, after>>
       \/ StoreFails(r)
    /\ UNCHANGED <<kind, arg, before, normVars>>

\* seed_insert removing the records it inserted when an insert fails.
seed_insert_rollback(r) ==
    /\ pc[r] = "insert_demo"
    /\ \/ /\ Inserted(r, Demo[i[r]])
          /\ i' = [i EXCEPT ![r] = @ + 1]
          /\ pc' = [pc EXCEPT ![r] = IF i[r] = Len(Demo) THEN "requery" ELSE "insert_demo"]
          /\ Interleave(r)
          /\ UNCHANGED <<branch, resp, failedAt, seen, after>>
       \/ /\ calls' = [calls EXCEPT ![r] = @ + 1]
          /\ failedAt' = [failedAt EXCEPT ![r] = calls[r] + 1]
          /\ ServerError(r)
          /\ Interleave(r)
          /\ coll' = SelectSeq(coll, LAMBDA d :
                         \A j \in 1..Len(ins[r]) : d["_id"] # Oid(ins[r][j]))
          /\ UNCHANGED <<nextId, branch, i, ins, seen>>
    /\ UNCHANGED <<kind, arg, before, normVars>>

\* for item in demo: create_document(collection, item)
seed_insert(r) ==
    /\ pc[r] = "insert_demo"
    /\ \/ /\ Inserted(r, Demo[i[r]])
          /\ i' = [i EXCEPT ![r] = @ + 1]
          /\ pc' = [pc EXCEPT ![r] = IF i[r] = Len(Demo) THEN "requery" ELSE "insert_demo"]
          /\ Interleave(r)
          /\ UNCHANGED <<branch, resp, failedAt, seen, after>>
       \/ StoreFails(r)
    /\ UNCHANGED <<kind, arg, before, normVars>>

\* docs = get_documents(collection, {}, limit=12); return [ProductOut(...)]
seed_respond(r) ==
    /\ pc[r] = "requery"
    /\ \/ LET docs == Find(coll, NoFilter, SeedLimit)
          IN  /\ Queried(r, docs)
              /\ Respond(r, branch[r], docs)
              /\ Interleave(r)
              /\ UNCHANGED <<coll, nextId, branch, i, failedAt, ins>>
       \/ StoreFails(r)
    /\ UNCHANGED <<kind, arg, before, normVars>>

Next ==
    \/ \E r \in Reqs : create_product(r)
    \/ \E r \in Reqs : list_products(r)
    \/ \E r \in Reqs : seed_check(r)
    \/ \E r \in Reqs : seed_insert(r)
    \/ \E r \in Reqs : seed_respond(r)

Spec == Init /\ [][Next]_vars

\* --------------------------------------------------- the normalizer alone
\* Raw documents as a store may return them: keys absent, values of
\* unexpected type.
RawDocs ==
    [_id : {Oid(1)},
     title : {Absent, Null, Str("Silk Embrace Bra")},
     description : {Absent, Str("Luxurious silk with delicate lace trim.")},
     price : {Absent, Num(690), Str("12.5"), Str("abc")},
     category : {Absent, Str("bras")},
     images : {Absent, Null, List(<<Str("https://images.unsplash.com/photo-1541099649105-f69ad21f3246?q=80&w=1200&auto=format&fit=crop")>>)},
     colors : {Absent, List(<<Str("black"), Str("blush")>>)},
     sizes : {Absent, List(<<Str("32B")>>)},
     tags : {Absent, List(<<Str("silk")>>), List(<<Num(30)>>)},
     in_stock : {Absent, Bool(TRUE), Bool(FALSE)},
     is_featured : {Absent, Bool(TRUE), Bool(FALSE)},
     rating : {Absent, Null, Num(47)}]

InitNorm ==
    /\ coll = <<>>
    /\ InitRequests
    /\ raw \in RawDocs
    /\ normBy = "none"
    /\ normOut = Raised

\* One handler's conversion is applied to the raw document.
Normalized(which) ==
    /\ normBy = "none"
    /\ normBy' = which
    /\ normOut' = NormalizeBy(which, raw)
    /\ UNCHANGED <<coll, nextId, kind, pc, arg, branch, i, resp, calls, failedAt,
                   ins, before, seen, after, alone, raw>>

NextNorm ==
    \/ Normalized("list")
    \/ Normalized("existing")
    \/ Normalized("seeded")

SpecNorm == InitNorm /\ [][NextNorm]_vars

\* ============================================================ properties
\* The text of the identifier the store generated k-th.
IdText(k) == "oid" \o ToString(k)

\* The text elements of the sequence field k of d, none if d lacks k.
Texts(d, k) == IF Has(d, k) THEN [j \in 1..Len(d[k].l) |-> d[k].l[j].s] ELSE <<>>

\* The product the specification documents for a stored document d that
\* has title and category: defaults for the fields d lacks, the stored
\* value for the fields it has.
Documented(d) ==
    [id |-> IdText(d["_id"].n),
     title |-> d["title"].s,
     description |-> IF Has(d, "description") THEN d["description"] ELSE Null,
     price |-> IF Has(d, "price") THEN d["price"].n ELSE 0,
     category |-> d["category"].s,
     images |-> Texts(d, "images"),
     colors |-> Texts(d, "colors"),
     sizes |-> Texts(d, "sizes"),
     tags |-> Texts(d, "tags"),
     in_stock |-> IF Has(d, "in_stock") THEN d["in_stock"] = Bool(TRUE) ELSE TRUE,
     is_featured |-> IF Has(d, "is_featured") THEN d["is_featured"] = Bool(TRUE) ELSE FALSE,
     rating |-> IF Has(d, "rating") /\ d["rating"] # Null THEN d["rating"] ELSE Null]

\* The collection as it was when request r completed.
StoredAfter(r) == SubSeq(coll, 1, Len(after[r]))

Smaller(a, b) == IF a <= b THEN a ELSE b

SeedDone(r) == kind[r] = "seed" /\ pc[r] = "done"

\* ------------------------------------------------------------------- C1
\* C1 as stated: a seed request that arrived on a non-empty collection
\* inserts nothing (left alone, it completes on the collection it arrived
\* on), and its response holds at most 12 records, each of which was stored
\* when it arrived.
C1_AsStated ==
    \A r \in Reqs :
        SeedDone(r) /\ before[r] # <<>> =>
            /\ ins[r] = <<>>
            /\ alone[r] => after[r] = before[r]
            /\ resp[r].status = 200 =>
                   /\ Len(resp[r].body) <= 12
                   /\ \A j \in 1..Len(resp[r].body) :
                          \E m \in 1..Len(before[r]) :
                              resp[r].body[j].id = IdText(before[r][m])

\* C1, amended: a seed request that arrived on a non-empty collection
\* inserts nothing, and its response is the normalization of the first 12
\* records (all of them if fewer) stored when its limit=12 query ran, in
\* store order; if no other request was interleaved, the collection when it
\* completes is the collection when it arrived, so that the response holds
\* only records stored before the call.
C1_SeedOnNonEmpty ==
    \A r \in Reqs :
        SeedDone(r) /\ before[r] # <<>> =>
            /\ ins[r] = <<>>
            /\ resp[r].status = 200 =>
                   /\ Len(resp[r].body) <= 12
                   /\ resp[r].body =
                          [j \in 1..Smaller(12, Len(after[r])) |-> Documented(coll[j])]
            /\ alone[r] => after[r] = before[r]

\* A seed request answered with 12 of the 13 records it found.
C1_Witness ==
    \E r \in Reqs :
        /\ SeedDone(r) /\ resp[r].status = 200 /\ alone[r]
        /\ Len(before[r]) = 13 /\ Len(resp[r].body) = 12

\* ------------------------------------------------------------------- C2
\* C2: a seed request that ran alone on an empty collection and was answered
\* 200 inserted exactly 3 records, which are all the collection holds when
\* it completes, with the literal demo fields (the third without
\* is_featured), and its response is those 3 records, normalized.
C2_SeedOnEmpty ==
    \A r \in Reqs :
        SeedDone(r) /\ resp[r].status = 200 /\ alone[r] /\ before[r] = <<>> =>
            /\ Len(ins[r]) = 3
            /\ after[r] = ins[r]
            /\ Len(coll) >= 3
            /\ coll[1]["title"] = Str("Silk Embrace Bra") /\ coll[1]["price"] = Num(690)
            /\ coll[1]["category"] = Str("bras") /\ coll[1]["is_featured"] = Bool(TRUE)
            /\ coll[2]["title"] = Str("Velvet Night Set") /\ coll[2]["price"] = Num(890)
            /\ coll[2]["category"] = Str("sets") /\ coll[2]["is_featured"] = Bool(TRUE)
            /\ coll[3]["title"] = Str("Everyday Comfort Brief") /\ coll[3]["price"] = Num(180)
            /\ coll[3]["category"] = Str("panties") /\ ~Has(coll[3], "is_featured")
            /\ resp[r].body = [j \in 1..3 |-> Documented(coll[j])]
            /\ resp[r].body[3].is_featured = FALSE /\ resp[r].body[3].in_stock = TRUE

C2_Witness ==
    \E r \in Reqs :
        /\ SeedDone(r) /\ resp[r].status = 200 /\ alone[r] /\ before[r] = <<>>
        /\ Len(resp[r].body) = 3 /\ Len(coll) = 3

\* ------------------------------------------------------------------- C3
DemoTitles == <<Str("Silk Embrace Bra"), Str("Velvet Night Set"), Str("Everyday Comfort Brief")>>

Copies(title) == Cardinality({m \in 1..Len(coll) : coll[m]["title"] = title})

\* C3: two seed requests that both observed the collection empty and were
\* both answered 200 have both inserted the demo set: every demo record is
\* stored at least twice.
C3_BothSeed ==
    \A r, q \in Reqs :
        /\ r # q /\ SeedDone(r) /\ SeedDone(q)
        /\ branch[r] = "seeded" /\ branch[q] = "seeded"
        /\ resp[r].status = 200 /\ resp[q].status = 200
        => /\ Len(ins[r]) = 3 /\ Len(ins[q]) = 3
           /\ Len(coll) >= 6
           /\ \A j \in 1..3 : Copies(DemoTitles[j]) >= 2

\* Both seed requests arrived on the empty collection, and the collection
\* ends with 6 records, each demo record twice.
C3_Witness ==
    \E r, q \in Reqs :
        /\ r # q /\ SeedDone(r) /\ SeedDone(q)
        /\ before[r] = <<>> /\ before[q] = <<>>
        /\ resp[r].status = 200 /\ resp[q].status = 200
        /\ Len(coll) = 6
        /\ \A j \in 1..3 : Copies(DemoTitles[j]) = 2

\* ------------------------------------------------------------------- C4
\* The records the claim says a list request with parameters a selects.
Wanted(a, d) ==
    /\ a.category \notin {Null, Str("")} => Has(d, "category") /\ d["category"] = a.category
    /\ a.featured # Null => Has(d, "is_featured") /\ d["is_featured"] = a.featured

WantedOf(r) == SelectSeq(StoredAfter(r), LAMBDA d : Wanted(arg[r], d))

\* C4: the response of a list request answered 200 is, in store order, the
\* normalization of exactly the stored records whose category equals the
\* category parameter (if given and not empty) and whose stored is_featured
\* equals the featured parameter (if given, false included).
C4_ListFilter ==
    \A r \in Reqs :
        kind[r] = "list" /\ pc[r] = "done" /\ resp[r].status = 200 =>
            resp[r].body = [j \in 1..Len(WantedOf(r)) |-> Documented(WantedOf(r)[j])]

\* featured=false selected some of the records and left others out.
C4_Witness ==
    \E r \in Reqs :
        /\ kind[r] = "list" /\ pc[r] = "done" /\ resp[r].status = 200
        /\ arg[r].featured = Bool(FALSE) /\ arg[r].category = Str("")
        /\ Len(resp[r].body) > 0 /\ Len(resp[r].body) < Len(after[r])

\* ------------------------------------------------------------------- C7
\* The bodies the claim names: price below 0, rating outside [0, 5], title,
\* price or category missing.
NamedInvalid(b) ==
    \/ ~Has(b, "title") \/ ~Has(b, "price") \/ ~Has(b, "category")
    \/ b["price"].t = "num" /\ b["price"].n < 0
    \/ b["rating"].t = "num" /\ (b["rating"].n < 0 \/ b["rating"].n > 50)

\* C7: a create request whose body is one the claim names is answered 422
\* without any store call, and leaves the collection as it found it.
C7_RejectedBeforeStore ==
    \A r \in Reqs :
        kind[r] = "create" /\ pc[r] = "done" /\ NamedInvalid(arg[r].body) =>
            /\ resp[r].status = 422
            /\ calls[r] = 0
            /\ ins[r] = <<>>
            /\ after[r] = before[r]

\* A body with price -1 was rejected.
C7_Witness ==
    \E r \in Reqs :
        /\ kind[r] = "create" /\ pc[r] = "done" /\ resp[r].status = 422
        /\ arg[r].body["price"] = Num(-10)
        /\ calls[r] = 0

\* ------------------------------------------------------------------- C8
\* C8: a request one of whose store calls failed is done, answered 500 with
\* no records, and made no store call after the failing one; a request
\* answered 200 had no failing store call.
C8_FailureSurfaced ==
    \A r \in Reqs :
        /\ failedAt[r] > 0 =>
               /\ pc[r] = "done"
               /\ resp[r] = [status |-> 500, body |-> <<>>, id |-> ""]
               /\ calls[r] = failedAt[r]
        /\ resp[r].status = 200 => failedAt[r] = 0

\* A seed request whose second demo insert failed: its third store call.
C8_Witness ==
    \E r \in Reqs :
        /\ kind[r] = "seed" /\ failedAt[r] = 3 /\ Len(ins[r]) = 1
        /\ resp[r].status = 500

\* ------------------------------------------------------------------- C9
DistinctIds ==
    \A m, n \in 1..Len(coll) : m # n => coll[m]["_id"] # coll[n]["_id"]

\* A step keeps every stored record, identifier included, where it is.
Grows == Len(coll') >= Len(coll) /\ SubSeq(coll', 1, Len(coll)) = coll

\* A step of a list request, or a query of a seed request, keeps the
\* collection.
ReadsKeep ==
    \A r \in Reqs :
        /\ pc'[r] # pc[r]
        /\ kind'[r] = "list" \/ (kind'[r] = "seed" /\ pc[r] \in {"idle", "requery"})
        => coll' = coll

\* C9: identifiers of distinct stored records are distinct, and every step
\* keeps the stored records with their identifiers: the collection only
\* grows, and the reads leave it unchanged.
C9_RecordsKept == []DistinctIds /\ [][Grows /\ ReadsKeep]_vars

\* A list request was answered with stored records, and the collection has
\* grown since.
C9_Witness ==
    \E r \in Reqs :
        /\ kind[r] = "list" /\ pc[r] = "done" /\ Len(after[r]) > 0
        /\ Len(coll) > Len(after[r])

\* ------------------------------------------------------------------ C10
\* C10: a seed request whose k-th demo insert failed is answered 500 and the
\* k-1 demo records it inserted are stored; and a seed request that arrives
\* on a non-empty collection, as every one does that arrives after such a
\* failure with k >= 2, does not take the seeding branch and inserts nothing.
C10_PartialSeed ==
    \A r \in Reqs :
        /\ kind[r] = "seed" /\ failedAt[r] >= 2 =>
               /\ resp[r].status = 500
               /\ Len(ins[r]) = failedAt[r] - 2
               /\ \A j \in 1..Len(ins[r]) :
                      \E m \in 1..Len(coll) :
                          /\ coll[m]["_id"] = Oid(ins[r][j])
                          /\ coll[m]["title"] = DemoTitles[j]
               /\ \A q \in Reqs :
                      /\ kind[q] = "seed" /\ ins[r] # <<>>
                      /\ \A j \in 1..Len(ins[r]) : \E m \in 1..Len(before[q]) :
                             before[q][m] = ins[r][j]
                      => branch[q] # "seeded" /\ ins[q] = <<>>

\* The second demo insert failed, and a later seed request was answered
\* with the one record that was left.
C10_Witness ==
    \E r, q \in Reqs :
        /\ kind[r] = "seed" /\ failedAt[r] = 3 /\ Len(ins[r]) = 1
        /\ SeedDone(q) /\ before[q] = ins[r] /\ resp[q].status = 200
        /\ Len(resp[q].body) = 1 /\ Len(coll) = 1

\* ---------------------------------------------------------------- C5, C6
\* C5 as stated: the conversion of a raw document never fails.
C5_NeverFails == normBy # "none" => normOut.ok

\* The raw document has title and category, and the fields it has hold
\* values of the documented type.
WellTyped(d) ==
    /\ d["title"].t = "str" /\ d["category"].t = "str"
    /\ d["description"].t \in {"absent", "str", "null"}
    /\ d["price"].t \in {"absent", "num"}
    /\ \A k \in {"images", "colors", "sizes", "tags"} :
           \/ d[k] = Absent
           \/ d[k].t = "list" /\ \A j \in 1..Len(d[k].l) : d[k].l[j].t = "str"
    /\ d["in_stock"].t \in {"absent", "bool"}
    /\ d["is_featured"].t \in {"absent", "bool"}
    /\ d["rating"].t \in {"absent", "null", "num"}

\* C6: each of the three conversions turns a raw document that has title
\* and category into the documented product: price 0, empty sequences,
\* in_stock true, is_featured false, no rating for the fields it lacks (or
\* a null rating), the stored value for the fields it has.
C6_Defaults ==
    normBy # "none" /\ WellTyped(raw) => normOut.ok /\ normOut.v = Documented(raw)

\* The seeded branch's conversion filled in every default.
C6_Witness ==
    /\ normBy = "seeded" /\ WellTyped(raw) /\ normOut.ok
    /\ \A k \in {"price", "images", "colors", "sizes", "tags", "in_stock",
                 "is_featured", "rating"} : ~Has(raw, k)
    /\ normOut.v.price = 0 /\ normOut.v.images = <<>> /\ normOut.v.in_stock = TRUE
    /\ normOut.v.is_featured = FALSE /\ normOut.v.rating = Null

====
